---- MODULE Spec2Model ----
(***************************************************************************)
(* Model of the command-line tools of the repository.                      *)
(*                                                                         *)
(* Six state machines share this module:                                   *)
(*   Spec         - httpcheck.js main / runChecks: the bounded-concurrency *)
(*                  dispatch loop, with every check an asynchronous event  *)
(*                  of the Node event loop;                                *)
(*   CheckSpec    - httpcheck.js checkURL: one check with its attempts,    *)
(*                  retry timers and redirect hops against a               *)
(*                  nondeterministic server;                               *)
(*   ReportSpec   - httpcheck.js, the end of main: summary, export, exit;  *)
(*   OrganizeSpec - organize.js: plan, execute, undo;                      *)
(*   ServerSpec   - the simple HTTP server: its request handler;           *)
(*   PassgenSpec  - passgen.js: generatePassword.                          *)
(***************************************************************************)
EXTENDS Integers, Sequences, FiniteSets, TLC

\* ------------------------------------------------------------------ bounds

\* positional arguments given on the command line
MaxArgs == 2
\* lines of the URL-list file
MaxLines == 2
\* largest value of --concurrent
MaxConcurrent == 2
\* largest value of --retries
MaxRetries == 3
\* largest value of --max-redirects
MaxMaxRedirects == 2
\* most invocations of checkURL for one check
MaxCalls == 3
\* most results handed to the summary and the export
MaxResults == 4
\* most entries of the directory organize is run on
MaxFiles == 3
\* most runs of organize on the directory
MaxRuns == 2
\* most parts of an uploaded multipart body
MaxParts == 2
\* most requests the server is sent
MaxRequests == 2
\* largest value of --length
MaxLength == 5
\* largest random number drawn
MaxRandom == 1

\* ------------------------------------------------------------------ values

\* JavaScript null
Null == "<null>"

\* the host texts a command line or a file line can carry; "a b" cannot be a host
Hosts == {"a.com", "b.com"}
BadHost == "a b"

\* A URL string is modelled by its parts: scheme "" means that the text does
\* not start with http:// or https://.
URLString(scheme, host, path) == [scheme |-> scheme, host |-> host, path |-> path]

\* new URL(string) succeeds
isValidURL(string) == string.scheme \in {"http", "https"} /\ string.host \in Hosts

SeqsUpTo(S, n) == UNION {[1..k -> S] : k \in 0..n}

\* number of elements of sequence s that satisfy Test
CountIf(s, Test(_)) == Len(SelectSeq(s, Test))

RECURSIVE SelectCount(_, _)
\* number of occurrences of x in sequence s
SelectCount(s, x) == IF s = <<>> THEN 0
                     ELSE (IF Head(s) = x THEN 1 ELSE 0) + SelectCount(Tail(s), x)

\* ------------------------------------------------------------------ input

\* what a positional argument can be
ArgStrings == {URLString("https", "a.com", "/"), URLString("", "b.com", "/")}

\* what a line of the URL-list file can be, after trim()
FileLines == {[kind |-> "blank", text |-> URLString("", "", "")],
              [kind |-> "comment", text |-> URLString("", "", "")],
              [kind |-> "text", text |-> URLString("", "b.com", "/")],
              [kind |-> "text", text |-> URLString("http", "a.com", "/")],
              [kind |-> "text", text |-> URLString("", BadHost, "/")]}

NoFile == [given |-> FALSE, exists |-> FALSE, lines |-> <<>>]

Files == {NoFile, [given |-> TRUE, exists |-> FALSE, lines |-> <<>>]}
         \cup {[given |-> TRUE, exists |-> TRUE, lines |-> l] : l \in SeqsUpTo(FileLines, MaxLines)}

\* the values of --format: the three the help names, and one it does not
Formats == {"table", "json", "csv", "xml"}

\* --output and --format as given: no output file (format left at its
\* default), or an output file with any format
OutputChoices ==
    {[output |-> Null, format |-> "table"]}
    \cup {[output |-> "results.out", format |-> f] : f \in Formats}

\* parseArgs keeps a positional argument only when it is a valid URL
parseArgs(args, f, concurrent, quiet, out) ==
    [urls |-> SelectSeq(args, isValidURL), file |-> f,
     concurrent |-> concurrent, quiet |-> quiet,
     output |-> out.output, format |-> out.format]

\* the map of readURLsFromFile: add the protocol if missing
AddProtocol(line) == IF line.text.scheme = "" THEN [line.text EXCEPT !.scheme = "https"]
                     ELSE line.text

KeptLine(line) == line.kind = "text"

RECURSIVE MapAddProtocol(_)
MapAddProtocol(ls) == IF ls = <<>> THEN <<>>
                      ELSE <<AddProtocol(Head(ls))>> \o MapAddProtocol(Tail(ls))

\* readURLsFromFile: throws when the file does not exist
readURLsFromFile(f) ==
    IF ~f.exists THEN [ok |-> FALSE, value |-> <<>>]
    ELSE [ok |-> TRUE, value |-> MapAddProtocol(SelectSeq(f.lines, KeptLine))]

\* ------------------------------------------------------------------ state

VARIABLES
    argv,       \* positional arguments
    options,    \* the record parseArgs returns
    mainPc,     \* "start", "running" (awaiting runChecks), "exited", "crashed"
    exitCode,   \* the process exit code, Null while the process runs
    stderr,     \* what main reported on standard error, Null if nothing
    urls,       \* main: the URLs collected
    rcPc,       \* runChecks: "idle", "head" (loop test), "await", "returned", "thrown"
    queue,      \* runChecks: queue
    running,    \* runChecks: running, the promises of the checks dispatched
    results,    \* runChecks: results
    printed,    \* the results printResult has shown
    summary     \* whether printSummary has run

VARIABLES
    repResults,    \* main after runChecks: the results it was given
    repOptions,    \* main after runChecks: options
    repPc,         \* "summary", "export", "exit", "exited"
    repSummary,    \* what printSummary printed
    repFile,       \* the output file
    repStderr,     \* what main reported on standard error
    repExit        \* the exit code

VARIABLES
    target,        \* checkURL: the url it is called with
    checkOptions,  \* checkURL: the options it is called with
    calls,         \* the invocations of checkURL, the retries and redirect hops included
    crashed        \* an exception left an event handler uncaught

runVars == <<argv, options, mainPc, exitCode, stderr, urls, rcPc, queue, running,
             results, printed, summary>>

checkVars == <<target, checkOptions, calls, crashed>>

VARIABLES
    fsFiles,       \* organize.js: the paths of the files that exist
    fsDirs,        \* the folders that exist under the directory
    fsLog,         \* the operations in .organize-log.json, or NoLog
    fsBefore,      \* the files and folders before organize was run
    dirListing,    \* what readdirSync returns for the directory: its files, in order
    locked,        \* the paths renameSync fails on (EPERM, EBUSY)
    orgOptions,    \* options of the organize run
    orgPc,         \* "start", "confirm", "done", "undone"
    orgOps,        \* operations: the plan
    orgSuccess,    \* success: the moves that did not throw
    orgRuns,       \* how often organize has been run
    orgPrev        \* the plan size and success count of the run before

VARIABLES
    srvPc,         \* simple server: "listening", "crashed" (uncaught exception)
    srvUpload,     \* uploadEnabled
    srvCors,       \* corsEnabled
    srvFiles,      \* the files that exist
    srvRead,       \* the files the server has read
    srvListed,     \* the directories the server has listed
    srvWritten,    \* the files the server has written
    srvLast,       \* the last request and its response
    srvCount       \* the requests handled

VARIABLES
    pgOptions,     \* passgen.js: options
    pgPc,          \* "start", "returned", "thrown"
    pgPassword,    \* what generatePassword returned
    pgThrown       \* the error generatePassword threw, "" if none

srvVars == <<srvPc, srvUpload, srvCors, srvFiles, srvRead, srvListed, srvWritten, srvLast,
             srvCount>>

pgVars == <<pgOptions, pgPc, pgPassword, pgThrown>>

orgVars == <<fsFiles, fsDirs, fsLog, fsBefore, dirListing, locked, orgOptions, orgPc, orgOps,
             orgSuccess, orgRuns, orgPrev>>

reportVars == <<repResults, repOptions, repPc, repSummary, repFile, repStderr, repExit>>

vars == <<runVars, checkVars, reportVars, orgVars, srvVars, pgVars>>

\* what an action of main and runChecks leaves alone
outsideRun == <<checkVars, reportVars, orgVars, srvVars, pgVars>>

\* what an action of checkURL leaves alone
outsideCheck == <<runVars, reportVars, orgVars, srvVars, pgVars>>

\* what an action of the end of main leaves alone
outsideReport == <<runVars, checkVars, orgVars, srvVars, pgVars>>

\* what an action of organize.js leaves alone
outsideOrganize == <<runVars, checkVars, reportVars, srvVars, pgVars>>

\* what the request handler of the simple server leaves alone
outsideServer == <<runVars, checkVars, reportVars, orgVars, pgVars>>

\* what generatePassword leaves alone
outsidePassgen == <<runVars, checkVars, reportVars, orgVars, srvVars>>

\* the simple server is not running
NoServer ==
    /\ srvPc = "idle" /\ srvUpload = FALSE /\ srvCors = FALSE /\ srvFiles = {}
    /\ srvRead = {} /\ srvListed = {} /\ srvWritten = {} /\ srvCount = 0
    /\ srvLast = [method |-> "", urlPath |-> <<>>, status |-> 0, body |-> "", cors |-> FALSE]

\* generatePassword is not called
NoPassgen == pgOptions = Null /\ pgPc = "idle" /\ pgPassword = <<>> /\ pgThrown = ""

\* no transaction log in the directory
NoLog == [exists |-> FALSE, operations |-> <<>>]

\* organize.js is not modelled on its own
NoOrganize ==
    /\ fsFiles = {} /\ fsDirs = {} /\ fsLog = NoLog /\ fsBefore = Null /\ dirListing = <<>>
    /\ locked = {} /\ orgOptions = Null /\ orgPc = "idle" /\ orgOps = <<>> /\ orgSuccess = 0
    /\ orgRuns = 0 /\ orgPrev = Null


\* no summary printed, no file written
NoSummary ==
    [printed |-> FALSE, total |-> 0, successful |-> 0, redirects |-> 0, clientErrors |-> 0,
     serverErrors |-> 0, failed |-> 0, avgTime |-> 0]
NoOutput == [written |-> FALSE, format |-> "", text |-> <<>>, data |-> <<>>]

\* the end of main is not modelled on its own
NoReport ==
    /\ repResults = <<>> /\ repOptions = Null /\ repPc = "idle" /\ repSummary = NoSummary
    /\ repFile = NoOutput /\ repStderr = Null /\ repExit = Null

\* no call of checkURL is modelled call by call
NoCheck == target = Null /\ checkOptions = Null /\ calls = <<>> /\ crashed = FALSE

\* main has not been started
NoRun ==
    /\ argv = <<>> /\ options = Null /\ mainPc = "idle" /\ exitCode = Null
    /\ stderr = Null /\ urls = <<>> /\ rcPc = "idle" /\ queue = <<>>
    /\ running = <<>> /\ results = <<>> /\ printed = <<>> /\ summary = FALSE

\* ------------------------------------------------------------------ checkURL, as runChecks sees it

\* The results a check of url can resolve with: a response, or status 0 after
\* the retries are exhausted.
CheckResults(url) ==
    {[url |-> url, status |-> 200, error |-> Null],
     [url |-> url, status |-> 404, error |-> Null],
     [url |-> url, status |-> 0, error |-> "connect ECONNREFUSED"],
     [url |-> url, status |-> 0, error |-> "Request timeout"]}

\* checkURL(url, options) is an async function: new URL(url) throwing makes
\* the promise it returns a rejected one; otherwise the request is sent and
\* the promise is pending.
StartCheck(url) ==
    [url |-> url, state |-> IF isValidURL(url) THEN "pending" ELSE "rejected"]

\* ------------------------------------------------------------------ checkURL

\* the url checkURL can be called with: a parseable one, and one new URL rejects
StartURLs == {URLString("https", "a.com", "/"), URLString("https", BadHost, "/")}

\* the status codes the server answers with
Statuses == {200, 301, 302, 303, 404}

\* STATUS_CODES[res.statusCode] || 'Unknown'
StatusText(code) ==
    CASE code = 200 -> "OK"
      [] code = 301 -> "Moved Permanently"
      [] code = 302 -> "Found"
      [] code = 404 -> "Not Found"
      [] OTHER -> "Unknown"

\* The Location header of a response: absent, a path-absolute reference, an
\* absolute URL (of the other host, or of the host first asked), or an
\* absolute URL that cannot be parsed.
NoLocation == URLString("", "", "")

Locations == {NoLocation,
              URLString("", "", "/x"),
              URLString("https", "b.com", "/"),
              URLString("https", "a.com", "/"),
              URLString("https", BadHost, "/")}

\* the responses of the server: any status without Location, 301 with any
\* Location, the other redirect statuses with one Location
Responses ==
    {[status |-> st, location |-> NoLocation] : st \in Statuses}
    \cup {[status |-> 301, location |-> l] : l \in Locations}
    \cup {[status |-> st, location |-> URLString("https", "b.com", "/")] : st \in {302, 303}}

\* the messages of the socket errors
ErrorMessages == {"connect ECONNREFUSED", "read ECONNRESET"}

\* the error a destroyed request emits
SocketHangUp == "socket hang up"

\* the milliseconds Date.now() can have advanced when an event arrives
Elapsed == {1, 2}

\* when a response arrives: t, the milliseconds from the call to the response
\* callback, and body, the milliseconds from there to the 'end' event
ResponseTimes == {[t |-> 1, body |-> 1], [t |-> 2, body |-> 0]}

\* options.timeout, the default
DefaultTimeout == 10000

\* new URL(location, url): a reference without scheme is resolved against
\* the current URL, an absolute URL stands for itself; ok is FALSE when
\* new URL throws
ResolveLocation(location, url) ==
    IF location.scheme = ""
    THEN [ok |-> TRUE, value |-> [url EXCEPT !.path = location.path]]
    ELSE [ok |-> isValidURL(location), value |-> location]

\* no result yet
NoResult ==
    [url |-> URLString("", "", ""), status |-> -1, statusText |-> "",
     responseTime |-> 0, redirects |-> <<>>, error |-> Null]

\* what happened to a request: nothing yet, or the event that ended it
\* t is the time since the call when its handler first ran (for a response,
\* the response callback), ended the time since the call when the request
\* was over (for a response, the 'end' event)
NoEvent ==
    [kind |-> "none", status |-> 0, location |-> NoLocation, message |-> "", t |-> 0,
     ended |-> 0]
ResponseEvent(res, t, body) ==
    [kind |-> "response", status |-> res.status, location |-> res.location,
     message |-> "", t |-> t, ended |-> t + body]
ErrorEvent(message, t) ==
    [kind |-> "error", status |-> 0, location |-> NoLocation, message |-> message, t |-> t,
     ended |-> t]
TimeoutEvent(t) ==
    [kind |-> "timeout", status |-> 0, location |-> NoLocation, message |-> "", t |-> t,
     ended |-> t]

\* the synchronous part of checkURL(url, options, attempt): new URL(url)
\* throws, or the request is sent.  parent and via say which call waits for
\* this one's promise: a retry (then(resolve)) or a redirect (the merge);
\* after is the delay of the timer that made the call.
StartCall(url, attempt, parent, via, after) ==
    [url |-> url, attempt |-> attempt, parent |-> parent, via |-> via, after |-> after,
     req |-> IF isValidURL(url) THEN "sent" ELSE "threw",
     event |-> NoEvent, timers |-> 0,
     resolved |-> FALSE, result |-> NoResult, candidate |-> NoResult]

\* the result built in the end handler: responseTime is the constant set in
\* the response callback, endTime - startTime
ResponseResult(url, res, t) ==
    [url |-> url, status |-> res.status, statusText |-> StatusText(res.status),
     responseTime |-> t, redirects |-> <<>>, error |-> Null]

\* the result the error handler resolves with
ErrorResult(url, message, t) ==
    [url |-> url, status |-> 0, statusText |-> "Error",
     responseTime |-> t, redirects |-> <<>>, error |-> message]

\* the result the timeout handler resolves with
TimeoutResult(url, timeout) ==
    [url |-> url, status |-> 0, statusText |-> "Timeout",
     responseTime |-> timeout, redirects |-> <<>>, error |-> "Request timeout"]

\* the merge without the assignment of the target's status
MergeRedirectKeepsStatus(result, redirectResult) ==
    [result EXCEPT !.responseTime = @ + redirectResult.responseTime,
                   !.redirects = @ \o redirectResult.redirects]

\* the merge with the entries of the target put before the entry of the hop
MergeRedirectPrepends(result, redirectResult) ==
    [result EXCEPT !.status = redirectResult.status,
                   !.statusText = redirectResult.statusText,
                   !.responseTime = @ + redirectResult.responseTime,
                   !.redirects = redirectResult.redirects \o @]

\* the merge with the time of the target in place of the sum
MergeRedirectTakesTime(result, redirectResult) ==
    [result EXCEPT !.status = redirectResult.status,
                   !.statusText = redirectResult.statusText,
                   !.responseTime = redirectResult.responseTime,
                   !.redirects = @ \o redirectResult.redirects]

\* the then-callback that merges the result of the redirect target
MergeRedirect(result, redirectResult) ==
    [result EXCEPT !.status = redirectResult.status,
                   !.statusText = redirectResult.statusText,
                   !.responseTime = @ + redirectResult.responseTime,
                   !.redirects = @ \o redirectResult.redirects]

\* res.req?._redirectCount || 0: nothing ever sets _redirectCount
ReqRedirectCount(call) == 0

\* the condition without the test of options.followRedirects
IsRedirectAlways(opts, res) ==
    res.status \in {301, 302, 307, 308} /\ res.location # NoLocation

\* the condition under which the end handler looks at the redirect count
IsRedirect(opts, res) ==
    opts.followRedirects /\ res.status \in {301, 302, 307, 308} /\ res.location # NoLocation

\* redirectCount <= options.maxRedirects
MayFollow(opts, call) == ReqRedirectCount(call) + 1 <= opts.maxRedirects

\* the retry test with <= for <: one attempt too many
MayRetryOffByOne(opts, call) == call.attempt <= opts.retries

\* attempt < options.retries
MayRetry(opts, call) == call.attempt < opts.retries

\* the same delay before every retry
BackoffConstant(attempt) == 1000

\* 1000 * attempt
Backoff(attempt) == 1000 * attempt

RECURSIVE ResolveCall(_, _, _)
\* resolve(r) of call c: a promise keeps its first resolution; the promise
\* of a retry resolves the promise of the call that scheduled it, the
\* promise of a redirect target is merged into the result of the hop before
ResolveCall(cs, c, r) ==
    IF cs[c].resolved THEN cs
    ELSE LET cs1 == [cs EXCEPT ![c].resolved = TRUE, ![c].result = r]
             p == cs[c].parent
         IN  IF p = 0 THEN cs1
             ELSE IF cs[c].via = "retry" THEN ResolveCall(cs1, p, r)
             ELSE ResolveCall(cs1, p, MergeRedirect(cs1[p].candidate, r))

\* ------------------------------------------------------------------ runChecks

\* the guard with <= for <: one check too many is started
CanStartOffByOne(run, q, concurrent) == Len(run) <= concurrent /\ Len(q) > 0

\* the guard of the inner while loop
CanStart(run, q, concurrent) == Len(run) < concurrent /\ Len(q) > 0

RECURSIVE StartNewChecks(_, _, _)
\* the inner while loop: start new checks up to the concurrent limit
StartNewChecks(run, q, concurrent) ==
    IF CanStart(run, q, concurrent)
    THEN StartNewChecks(Append(run, StartCheck(Head(q))), Tail(q), concurrent)
    ELSE [running |-> run, queue |-> q]

\* running[i].isFulfilled: a native Promise has no such property, so the read
\* gives undefined whatever the state of the promise
isFulfilled(p) == FALSE

NotFulfilled(p) == ~isFulfilled(p)

\* the for loop that removes completed promises
RemoveCompleted(run) == SelectSeq(run, NotFulfilled)

Settled(p) == p.state \in {"fulfilled", "rejected"}

\* Promise.race(running) has settled: some promise of running is settled
RaceSettled == \E i \in 1..Len(running) : Settled(running[i])

\* the promise that settles the race: the first settled one
RaceWinner == running[CHOOSE i \in 1..Len(running) :
                  /\ Settled(running[i])
                  /\ \A j \in 1..(i - 1) : ~Settled(running[j])]

\* the filter of main that decides the exit code
Failed(r) == r.status = 0 \/ r.status >= 400

\* the default branch of the switch of exportResults
ExportThrows(format) == format \notin {"json", "csv"}

Init ==
    /\ argv \in SeqsUpTo(ArgStrings, MaxArgs)
    /\ \E f \in Files, c \in 1..MaxConcurrent, q \in BOOLEAN, out \in OutputChoices :
           options = parseArgs(argv, f, c, q, out)
    /\ mainPc = "start"
    /\ exitCode = Null
    /\ stderr = Null
    /\ urls = <<>>
    /\ rcPc = "idle"
    /\ queue = <<>>
    /\ running = <<>>
    /\ results = <<>>
    /\ printed = <<>>
    /\ summary = FALSE
    /\ NoCheck
    /\ NoReport
    /\ NoOrganize
    /\ NoServer
    /\ NoPassgen

\* main up to the call of runChecks: collect the URLs
MainCollect ==
    /\ mainPc = "start"
    /\ UNCHANGED outsideRun
    /\ LET fromFile == IF options.file.given THEN readURLsFromFile(options.file)
                       ELSE [ok |-> TRUE, value |-> <<>>]
           all == options.urls \o fromFile.value
       IN  IF ~fromFile.ok
           THEN \* the catch of main
                /\ stderr' = "File not found"
                /\ exitCode' = 1
                /\ mainPc' = "exited"
                /\ UNCHANGED <<urls, rcPc, queue>>
           ELSE IF Len(all) = 0
           THEN /\ stderr' = "No URLs provided"
                /\ exitCode' = 1
                /\ mainPc' = "exited"
                /\ urls' = all
                /\ UNCHANGED <<rcPc, queue>>
           ELSE /\ urls' = all
                /\ queue' = all
                /\ rcPc' = "head"
                /\ mainPc' = "running"
                /\ UNCHANGED <<stderr, exitCode>>
    /\ UNCHANGED <<argv, options, running, results, printed, summary>>

\* runChecks at the test of its outer loop: start new checks and wait for the
\* race, or return the results to main, which prints the summary and exits
RunChecksLoop ==
    /\ mainPc = "running"
    /\ UNCHANGED outsideRun
    /\ rcPc = "head"
    /\ IF Len(queue) > 0 \/ Len(running) > 0
       THEN LET s == StartNewChecks(running, queue, options.concurrent)
            IN  /\ running' = s.running
                /\ queue' = s.queue
                /\ rcPc' = IF Len(s.running) > 0 THEN "await" ELSE "head"
                /\ UNCHANGED <<mainPc, exitCode, stderr, summary>>
       ELSE /\ rcPc' = "returned"
            /\ summary' = ~options.quiet
            /\ IF options.output # Null /\ ExportThrows(options.format)
               THEN \* the catch of main
                    stderr' = "Unknown format" /\ exitCode' = 1
               ELSE /\ exitCode' = IF CountIf(results, Failed) > 0 THEN 1 ELSE 0
                    /\ UNCHANGED stderr
            /\ mainPc' = "exited"
            /\ UNCHANGED <<running, queue>>
    /\ UNCHANGED <<argv, options, urls, results, printed>>

\* the continuation of await Promise.race(running)
RunChecksResume ==
    /\ mainPc = "running"
    /\ UNCHANGED outsideRun
    /\ rcPc = "await"
    /\ RaceSettled
    /\ IF RaceWinner.state = "rejected"
       THEN \* the await throws, runChecks rejects, main catches
            /\ rcPc' = "thrown"
            /\ stderr' = "Invalid URL"
            /\ exitCode' = 1
            /\ mainPc' = "exited"
            /\ UNCHANGED running
       ELSE /\ running' = RemoveCompleted(running)
            /\ rcPc' = "head"
            /\ UNCHANGED <<stderr, exitCode, mainPc>>
    /\ UNCHANGED <<argv, options, urls, queue, results, printed, summary>>

\* An I/O event or timer of the event loop runs only when no microtask is
\* ready: runChecks is suspended in its await and the race is still pending.
EventLoopIdle == mainPc = "running" /\ rcPc = "await" /\ ~RaceSettled

\* check i resolves with result r: the then-callback of runChecks collects
\* and prints it
CompleteCheck(i, r) ==
    /\ EventLoopIdle
    /\ UNCHANGED outsideRun
    /\ running[i].state = "pending"
    /\ running' = [running EXCEPT ![i].state = "fulfilled"]
    /\ results' = Append(results, r)
    /\ printed' = IF ~options.quiet THEN Append(printed, r) ELSE printed
    /\ UNCHANGED <<argv, options, mainPc, exitCode, stderr, urls, rcPc, queue, summary>>

\* the response handler of check i throws (a Location that new URL cannot
\* resolve): an uncaught exception ends the process
CheckThrows(i) ==
    /\ EventLoopIdle
    /\ UNCHANGED outsideRun
    /\ running[i].state = "pending"
    /\ mainPc' = "crashed"
    /\ exitCode' = 1
    /\ UNCHANGED <<argv, options, stderr, urls, rcPc, queue, running, results, printed,
                   summary>>

SomeCheckCompletes(i) == \E r \in CheckResults(running[i].url) : CompleteCheck(i, r)

Next ==
    \/ MainCollect
    \/ RunChecksLoop
    \/ RunChecksResume
    \/ \E i \in 1..Len(running) : SomeCheckCompletes(i)
    \/ \E i \in 1..Len(running) : CheckThrows(i)

Spec == Init /\ [][Next]_vars

\* The event loop runs every ready continuation, and every request ends (the
\* server answers, the connection fails or the timeout fires).
Fairness ==
    /\ WF_vars(MainCollect)
    /\ WF_vars(RunChecksLoop)
    /\ WF_vars(RunChecksResume)
    /\ \A i \in 1..(MaxArgs + MaxLines) : WF_vars(i <= Len(running) /\ SomeCheckCompletes(i))

FairSpec == Spec /\ Fairness

\* ------------------------------------------------------------------ checkURL: the state machine

CheckOptions ==
    [retries : 1..MaxRetries, followRedirects : BOOLEAN,
     maxRedirects : 1..MaxMaxRedirects, timeout : {DefaultTimeout}]

InitCheck ==
    /\ NoRun
    /\ NoReport
    /\ NoOrganize
    /\ NoServer
    /\ NoPassgen
    /\ target \in StartURLs
    /\ checkOptions \in CheckOptions
    /\ calls = <<>>
    /\ crashed = FALSE

\* checkURL(url, options) is called
CallCheckURL ==
    /\ calls = <<>>
    /\ calls' = <<StartCall(target, 1, 0, "root", 0)>>
    /\ UNCHANGED <<target, checkOptions, crashed>>
    /\ UNCHANGED outsideCheck

\* the response to call c: the response callback runs t ms after the call,
\* the end handler body ms later
ResponseEnd(c, res, t, body) ==
    /\ ~crashed
    /\ calls[c].req = "sent"
    /\ LET call == calls[c]
           result == ResponseResult(call.url, res, t)
           ended == [calls EXCEPT ![c].req = "responded", ![c].event = ResponseEvent(res, t, body)]
       IN  IF IsRedirect(checkOptions, res) /\ MayFollow(checkOptions, call)
           THEN LET redirectURL == ResolveLocation(res.location, call.url)
                    hop == [from |-> call.url, to |-> redirectURL.value, status |-> res.status]
                IN  IF ~redirectURL.ok
                    THEN \* new URL throws inside the handler
                         /\ crashed' = TRUE
                         /\ calls' = ended
                    ELSE /\ Len(calls) < MaxCalls
                         /\ calls' = Append(
                                [ended EXCEPT ![c].candidate =
                                                  [result EXCEPT !.redirects = <<hop>>]],
                                StartCall(redirectURL.value, 1, c, "redirect", 0))
                         /\ UNCHANGED crashed
           ELSE /\ calls' = ResolveCall(ended, c, result)
                /\ UNCHANGED crashed
    /\ UNCHANGED <<target, checkOptions>>
    /\ UNCHANGED outsideCheck

\* the error handler of the request of call c
ErrorHandler(cs, c, message, t) ==
    IF MayRetry(checkOptions, cs[c])
    THEN [cs EXCEPT ![c].timers = @ + 1]
    ELSE ResolveCall(cs, c, ErrorResult(cs[c].url, message, t))

\* the connection of call c fails
RequestError(c, message, t) ==
    /\ ~crashed
    /\ calls[c].req = "sent"
    /\ calls' = ErrorHandler(
           [calls EXCEPT ![c].req = "closed", ![c].event = ErrorEvent(message, t)],
           c, message, t)
    /\ UNCHANGED <<target, checkOptions, crashed>>
    /\ UNCHANGED outsideCheck

\* the timeout handler of the request of call c: req.destroy(), then retry
\* or resolve
RequestTimeout(c) ==
    /\ ~crashed
    /\ calls[c].req = "sent"
    /\ LET destroyed == [calls EXCEPT ![c].req = "destroyed",
                                      ![c].event = TimeoutEvent(checkOptions.timeout)]
       IN  calls' = IF MayRetry(checkOptions, calls[c])
                    THEN [destroyed EXCEPT ![c].timers = @ + 1]
                    ELSE ResolveCall(destroyed, c,
                                     TimeoutResult(calls[c].url, checkOptions.timeout))
    /\ UNCHANGED <<target, checkOptions, crashed>>
    /\ UNCHANGED outsideCheck

\* the request destroyed by the timeout handler emits 'error' (socket hang
\* up), which runs the error handler of the same request
DestroyedError(c) ==
    /\ ~crashed
    /\ calls[c].req = "destroyed"
    /\ calls' = ErrorHandler([calls EXCEPT ![c].req = "closed"], c, SocketHangUp,
                             checkOptions.timeout)
    /\ UNCHANGED <<target, checkOptions, crashed>>
    /\ UNCHANGED outsideCheck

\* a backoff timer of call c fires: checkURL(url, options, attempt + 1)
BackoffElapsed(c) ==
    /\ ~crashed
    /\ calls[c].timers > 0
    /\ Len(calls) < MaxCalls
    /\ calls' = Append([calls EXCEPT ![c].timers = @ - 1],
                       StartCall(calls[c].url, calls[c].attempt + 1, c, "retry",
                                 Backoff(calls[c].attempt)))
    /\ UNCHANGED <<target, checkOptions, crashed>>
    /\ UNCHANGED outsideCheck

NextCheck ==
    \/ CallCheckURL
    \/ \E c \in 1..Len(calls), res \in Responses, at \in ResponseTimes :
           ResponseEnd(c, res, at.t, at.body)
    \/ \E c \in 1..Len(calls), m \in ErrorMessages, t \in Elapsed : RequestError(c, m, t)
    \/ \E c \in 1..Len(calls) : RequestTimeout(c)
    \/ \E c \in 1..Len(calls) : DestroyedError(c)
    \/ \E c \in 1..Len(calls) : BackoffElapsed(c)

CheckSpec == InitCheck /\ [][NextCheck]_vars

\* ------------------------------------------------------------------ claims: runChecks

Pending(p) == p.state = "pending"
Fulfilled(p) == p.state = "fulfilled"

\* the checks dispatched and not yet completed
InFlight == CountIf(running, Pending)

ResultURLs == [i \in 1..Len(results) |-> results[i].url]

AllValid == \A i \in 1..Len(urls) : isValidURL(urls[i])

\* C1: the number of checks dispatched and not yet completed never exceeds
\* the concurrency limit.
C1_AtMostNInFlight == InFlight <= options.concurrent

\* the pool is full while URLs are still waiting
C1_Witness == InFlight = options.concurrent /\ Len(queue) > 0

\* C2: every URL of the input list eventually has exactly one result record
\* (unless the process died of an uncaught exception).
C2_EveryURLExactlyOneResult ==
    (mainPc = "running" /\ AllValid)
        ~> \/ \A i \in 1..Len(urls) :
                 SelectCount(ResultURLs, urls[i]) = SelectCount(urls, urls[i])
           \/ mainPc = "crashed"

\* every check dispatched has completed
AllChecksComplete ==
    /\ mainPc = "running"
    /\ running # <<>>
    /\ \A i \in 1..Len(running) : Fulfilled(running[i])

\* C3: once every check has completed, runChecks eventually returns.
C3_RunChecksReturns == (AllChecksComplete /\ queue = <<>>) ~> (rcPc = "returned")

\* C4: when a check has completed while URLs wait, the continuation of the
\* await removes it from running, and the loop then dispatches the next URL.
C4_CompletedRemovedNextDispatched ==
    [][/\ (rcPc = "await" /\ rcPc' = "head" /\ queue # <<>>)
           => (\A i \in 1..Len(running') : ~Fulfilled(running'[i]))
       /\ (rcPc = "head" /\ rcPc' = "await" /\ queue # <<>>)
           => Len(queue') < Len(queue)]_vars

\* C6: with URLs collected (no input error) the process ends only after
\* runChecks has returned: no failure of one check aborts the run.
C6_FailureNeverAbortsRun == (mainPc = "exited" /\ urls # <<>>) => rcPc = "returned"

\* ------------------------------------------------------------------ claims: checkURL

\* the promise checkURL returned to its caller is resolved
RootResolved == calls # <<>> /\ calls[1].resolved

\* the CheckResult the caller gets
RootResult == calls[1].result

\* the event that ended call c, as the response it would be
ResponseOf(c) == [status |-> calls[c].event.status, location |-> calls[c].event.location]

\* every request made has ended with a socket error
AllSocketErrors == calls # <<>> /\ \A c \in 1..Len(calls) : calls[c].event.kind = "error"

\* every request made has ended with a timeout
AllTimeouts == calls # <<>> /\ \A c \in 1..Len(calls) : calls[c].event.kind = "timeout"

\* the retries call c has scheduled: timers waiting and calls made
FollowUps(c) ==
    calls[c].timers
    + Cardinality({d \in 1..Len(calls) : calls[d].parent = c /\ calls[d].via = "retry"})

\* the 3xx responses with a Location that were fetched
RedirectResponses ==
    {c \in 1..Len(calls) : /\ calls[c].event.kind = "response"
                           /\ IsRedirect(checkOptions, ResponseOf(c))}

\* C5: checkURL never throws: no call rejects its promise and no handler
\* leaves an exception uncaught.
C5_NeverThrowsNeverRejects ==
    /\ ~crashed
    /\ \A c \in 1..Len(calls) : calls[c].req # "threw"

\* C7: in the result of checkURL, status is 0 exactly when error is set.
C7_StatusZeroIffError ==
    RootResolved => (RootResult.status = 0 <=> RootResult.error # Null)

C9_TimeoutRetriesOnce ==
    /\ \A c \in 1..Len(calls) : FollowUps(c) <= 1
    /\ (RootResolved /\ AllTimeouts)
           => /\ Len(calls) = checkOptions.retries
              /\ RootResult.statusText = "Timeout"

\* C10: when maxRedirects + 1 redirects in a row were served, the result has
\* exactly maxRedirects redirect entries and the status of the last 3xx
\* response, without error.
C10_StopsAtMaxRedirects ==
    (RootResolved /\ Cardinality(RedirectResponses) >= checkOptions.maxRedirects + 1)
        => /\ Len(RootResult.redirects) = checkOptions.maxRedirects
           /\ RootResult.status \in {301, 302, 307, 308}
           /\ RootResult.error = Null

\* the calls that fetch the Location of the response to call c
RedirectTargets(c) ==
    {d \in 1..Len(calls) : calls[d].parent = c /\ calls[d].via = "redirect"}

\* the response to call c is one of the followed statuses with a Location
\* that resolves against the URL of the call
FollowableResponse(c) ==
    /\ calls[c].event.kind = "response"
    /\ calls[c].event.status \in {301, 302, 307, 308}
    /\ calls[c].event.location # NoLocation
    /\ calls[c].event.location.scheme # "" => calls[c].event.location.host \in Hosts

\* the Location of the response to call c, resolved against the URL of c
ExpectedTarget(c) ==
    IF calls[c].event.location.scheme = ""
    THEN URLString(calls[c].url.scheme, calls[c].url.host, calls[c].event.location.path)
    ELSE calls[c].event.location

\* the response to call c is final: not a redirect that is followed
FinalResponse(c) ==
    /\ calls[c].event.kind = "response"
    /\ ~(calls[c].event.status \in {301, 302, 307, 308}
         /\ calls[c].event.location # NoLocation)

\* C11: with followRedirects, a 301/302/307/308 response with a Location is
\* followed by one request to the Location resolved against the current
\* URL; when the first response is such a redirect and its target answers
\* with a final response, the result has the status of the target and
\* exactly the one entry {from: original, to: resolved, status: 3xx}.
C11_RedirectFollowedOnce ==
    /\ \A c \in 1..Len(calls) :
           (checkOptions.followRedirects /\ FollowableResponse(c))
               => /\ Cardinality(RedirectTargets(c)) = 1
                  /\ \A d \in RedirectTargets(c) : calls[d].url = ExpectedTarget(c)
    /\ (calls # <<>> /\ checkOptions.followRedirects /\ FollowableResponse(1))
           => \A d \in RedirectTargets(1) :
                  FinalResponse(d)
                      => /\ RootResolved
                         /\ RootResult.status = calls[d].event.status
                         /\ RootResult.redirects =
                                <<[from |-> target, to |-> ExpectedTarget(1),
                                   status |-> calls[1].event.status]>>

\* a relative Location was followed and its target answered 404
C11_Witness ==
    /\ RootResolved
    /\ FollowableResponse(1)
    /\ calls[1].event.location.scheme = ""
    /\ \E d \in RedirectTargets(1) : FinalResponse(d) /\ calls[d].event.status = 404
    /\ Len(RootResult.redirects) = 1

\* C12: redirects is non-empty only with followRedirects and a 3xx response
\* with a Location; without followRedirects a response is returned as it is,
\* with redirects empty; a 2xx response gives the server's status, no
\* redirects and no error.
C12_RedirectsOnlyWhenFollowed ==
    /\ \A c \in 1..Len(calls) :
           (calls[c].resolved /\ calls[c].result.redirects # <<>>)
               => /\ checkOptions.followRedirects
                  /\ \E d \in 1..Len(calls) :
                         /\ calls[d].event.kind = "response"
                         /\ calls[d].event.status \in 300..399
                         /\ calls[d].event.location # NoLocation
    /\ (calls # <<>> /\ calls[1].event.kind = "response"
        /\ (~checkOptions.followRedirects \/ calls[1].event.status \in 200..299))
           => /\ RootResolved
              /\ RootResult.status = calls[1].event.status
              /\ RootResult.redirects = <<>>
              /\ RootResult.error = Null

\* a 302 with a Location was returned as it is
C12_Witness ==
    /\ RootResolved
    /\ ~checkOptions.followRedirects
    /\ calls[1].event.kind = "response"
    /\ calls[1].event.status = 302
    /\ calls[1].event.location # NoLocation
    /\ RootResult.status = 302
    /\ RootResult.redirects = <<>>


\* ---- claims about the run as a whole

\* the export step of main would throw
ExportError == options.output # Null /\ ExportThrows(options.format)

\* C13: a run with at least one URL and no input or export error ends with
\* exit code 1 when some result has status 0 or status >= 400, and with exit
\* code 0 otherwise (unless the process died of an uncaught exception).
C13_ExitCodeReflectsFailures ==
    (mainPc = "running" /\ AllValid /\ ~ExportError)
        ~> \/ /\ mainPc = "exited"
              /\ exitCode = IF CountIf(results, Failed) > 0 THEN 1 ELSE 0
           \/ mainPc = "crashed"

\* C17: every dispatched check eventually delivers its result, whatever the
\* other checks do (unless the process died of an uncaught exception).
C17_ChecksIndependent ==
    \A i \in 1..(MaxArgs + MaxLines) :
        (mainPc = "running" /\ i <= Len(running) /\ Pending(running[i]))
            ~> \/ mainPc = "running" /\ i <= Len(running) /\ Fulfilled(running[i])
               \/ mainPc # "running"

\* a result that is an error: no response, or an error message set
IsErrorResult(r) == r.status = 0 \/ r.error # Null

\* C18: with --quiet every error result is still shown, and the summary is
\* not.
C18_QuietShowsErrors ==
    options.quiet
        => /\ \A i \in 1..Len(results) :
                  IsErrorResult(results[i])
                      => \E j \in 1..Len(printed) : printed[j] = results[i]
           /\ ~summary


\* ---- the end of main: printSummary, exportResults, the exit code

\* Text is a sequence of tokens: a token is a double quote, a comma, a line
\* feed, or a run of characters that are none of the three.
Quote == "\""
Comma == ","
LineFeed == "\n"

\* The results main hands to printSummary and exportResults: what checkURL
\* resolves with (status 0 with an error message, or the status and the
\* status message the server chose), with the six fields the report reads.
\* An empty error text stands for error: null (both are falsy).  One result
\* carries a 1xx status, a status class printSummary has no filter for.
ReportResults ==
    {[url |-> <<"http://a.com/ws">>, status |-> 101, statusText |-> <<"Switching Protocols">>,
      responseTime |-> 10, size |-> 0, error |-> <<>>],
     [url |-> <<"http://a.com/">>, status |-> 200, statusText |-> <<"OK">>,
      responseTime |-> 10, size |-> 5, error |-> <<>>],
     [url |-> <<"http://b.com/?q=1", Comma, "2">>, status |-> 200, statusText |-> <<"OK">>,
      responseTime |-> 25, size |-> 5, error |-> <<>>],
     [url |-> <<"http://a.com/x">>, status |-> 302, statusText |-> <<"Found">>,
      responseTime |-> 10, size |-> 0, error |-> <<>>],
     [url |-> <<"http://a.com/y">>, status |-> 404, statusText |-> <<"Not Found">>,
      responseTime |-> 10, size |-> 5, error |-> <<>>],
     [url |-> <<"http://b.com/">>, status |-> 500,
      statusText |-> <<"Oops", Comma, " ", Quote, "down", Quote>>,
      responseTime |-> 25, size |-> 0, error |-> <<>>],
     [url |-> <<"http://c.com/">>, status |-> 0, statusText |-> <<"Error">>,
      responseTime |-> 10, size |-> 0,
      error |-> <<"certificate is valid for a.com", Comma, " b.com">>],
     [url |-> <<"http://c.com/">>, status |-> 0, statusText |-> <<"Timeout">>,
      responseTime |-> DefaultTimeout, size |-> 0, error |-> <<"Request timeout">>]}

\* the result lists: runChecks is called with at least one URL
ResultLists == SeqsUpTo(ReportResults, MaxResults) \ {<<>>}

RECURSIVE SumResponseTime(_)
\* results.reduce((sum, r) => sum + r.responseTime, 0)
SumResponseTime(rs) ==
    IF rs = <<>> THEN 0 ELSE Head(rs).responseTime + SumResponseTime(Tail(rs))

\* n / d truncated, in place of Math.round
MathTrunc(n, d) == n \div d

\* Math.round(n / d) for n >= 0 and d > 0: halves round up
MathRound(n, d) == (2 * n + d) \div (2 * d)

IsSuccessful(r) == r.status >= 200 /\ r.status < 300
IsRedirectStatus(r) == r.status >= 300 /\ r.status < 400
IsClientError(r) == r.status >= 400 /\ r.status < 500
\* the filter of the server errors starting at 400, as the filter above it
IsServerErrorFrom400(r) == r.status >= 400

IsServerError(r) == r.status >= 500
IsFailed(r) == r.status = 0

\* what printSummary prints
printSummary(rs) ==
    [printed |-> TRUE,
     total |-> Len(rs),
     successful |-> CountIf(rs, IsSuccessful),
     redirects |-> CountIf(rs, IsRedirectStatus),
     clientErrors |-> CountIf(rs, IsClientError),
     serverErrors |-> CountIf(rs, IsServerError),
     failed |-> CountIf(rs, IsFailed),
     avgTime |-> MathRound(SumResponseTime(rs), Len(rs))]

\* the header line of the CSV
CsvHeader ==
    <<"URL", Comma, "Status", Comma, "Status Text", Comma, "Response Time (ms)", Comma,
      "Size (bytes)", Comma, "Error", LineFeed>>

\* one line of the CSV: the template literal puts the texts between double
\* quotes as they are
CsvLine(r) ==
    <<Quote>> \o r.url \o <<Quote, Comma, ToString(r.status), Comma, Quote>>
        \o r.statusText
        \o <<Quote, Comma, ToString(r.responseTime), Comma, ToString(r.size), Comma, Quote>>
        \o r.error \o <<Quote, LineFeed>>

RECURSIVE CsvLines(_)
CsvLines(rs) == IF rs = <<>> THEN <<>> ELSE CsvLine(Head(rs)) \o CsvLines(Tail(rs))

\* exportResults: the file it writes, or the error it throws
exportResults(rs, format) ==
    IF ExportThrows(format)
    THEN [threw |-> TRUE, file |-> NoOutput]
    ELSE [threw |-> FALSE,
          file |-> IF format = "json"
                   THEN [written |-> TRUE, format |-> "json", text |-> <<>>, data |-> rs]
                   ELSE [written |-> TRUE, format |-> "csv",
                         text |-> CsvHeader \o CsvLines(rs), data |-> <<>>]]

\* runChecks has returned results to main
InitReport ==
    /\ NoRun
    /\ NoCheck
    /\ NoOrganize
    /\ NoServer
    /\ NoPassgen
    /\ repResults \in ResultLists
    /\ \E q \in BOOLEAN, out \in OutputChoices :
           repOptions = [quiet |-> q, output |-> out.output, format |-> out.format]
    /\ repPc = "summary"
    /\ repSummary = NoSummary
    /\ repFile = NoOutput
    /\ repStderr = Null
    /\ repExit = Null

\* if (!options.quiet) printSummary(results)
ReportSummary ==
    /\ repPc = "summary"
    /\ repSummary' = IF ~repOptions.quiet THEN printSummary(repResults) ELSE repSummary
    /\ repPc' = "export"
    /\ UNCHANGED <<repResults, repOptions, repFile, repStderr, repExit>>
    /\ UNCHANGED outsideReport

\* if (options.output) exportResults(...); an error it throws is caught by
\* main, which reports it and exits with 1
ReportExport ==
    /\ repPc = "export"
    /\ IF repOptions.output # Null
       THEN LET x == exportResults(repResults, repOptions.format)
            IN  IF x.threw
                THEN /\ repStderr' = "Unknown format"
                     /\ repExit' = 1
                     /\ repPc' = "exited"
                     /\ UNCHANGED repFile
                ELSE /\ repFile' = x.file
                     /\ repPc' = "exit"
                     /\ UNCHANGED <<repStderr, repExit>>
       ELSE /\ repPc' = "exit"
            /\ UNCHANGED <<repFile, repStderr, repExit>>
    /\ UNCHANGED <<repResults, repOptions, repSummary>>
    /\ UNCHANGED outsideReport

\* process.exit(1) when some check failed; otherwise main returns and the
\* process ends with 0
ReportExit ==
    /\ repPc = "exit"
    /\ repExit' = IF CountIf(repResults, Failed) > 0 THEN 1 ELSE 0
    /\ repPc' = "exited"
    /\ UNCHANGED <<repResults, repOptions, repSummary, repFile, repStderr>>
    /\ UNCHANGED outsideReport

NextReport == ReportSummary \/ ReportExport \/ ReportExit

ReportSpec == InitReport /\ [][NextReport]_vars


\* ---- claims about the end of main

StatusList(rs) == [i \in 1..Len(rs) |-> rs[i].status]

CountStatus(rs, lo, hi) == Cardinality({i \in 1..Len(rs) : rs[i].status >= lo /\ rs[i].status <= hi})

Abs(n) == IF n < 0 THEN -n ELSE n

\* C14: the summary counts 200..299 as success, 300..399 as redirects,
\* 400..499 as client errors, 500 and above as server errors, status 0 as
\* failed, and the average is the mean of the response times of all the
\* results, failed ones included, rounded to the nearest integer.
C14_SummaryBuckets ==
    repSummary.printed
        => /\ repSummary.total = Len(repResults)
           /\ repSummary.successful = CountStatus(repResults, 200, 299)
           /\ repSummary.redirects = CountStatus(repResults, 300, 399)
           /\ repSummary.clientErrors = CountStatus(repResults, 400, 499)
           /\ repSummary.serverErrors = Len(repResults) - CountStatus(repResults, 0, 499)
           /\ repSummary.failed = CountStatus(repResults, 0, 0)
           /\ Abs(2 * SumResponseTime(repResults) - 2 * repSummary.avgTime * Len(repResults))
                  <= Len(repResults)

\* the summary of statuses [200, 200, 404, 0]: 2 successes, 1 client error,
\* 1 failed, and an average that counts the failed entry of 10000 ms
C14_Witness ==
    /\ repSummary.printed
    /\ StatusList(repResults) = <<200, 200, 404, 0>>
    /\ repSummary.successful = 2 /\ repSummary.clientErrors = 1 /\ repSummary.failed = 1
    /\ repSummary.total = 4
    /\ repSummary.avgTime > 2500

\* the values of --format the help names
DocumentedFormats == {"table", "json", "csv"}

\* the export step has run with an output file given
Exported == repPc \in {"exit", "exited"} /\ repOptions.output # Null

\* the export ended the run with an error
ExportFatal == repStderr # Null /\ repExit = 1

\* C15: with an output file the export is fatal exactly when the format is
\* not a documented one; with a documented format the file is written.
C15_ExportFatalIffUndocumented ==
    Exported
        => /\ ExportFatal <=> repOptions.format \notin DocumentedFormats
           /\ repOptions.format \in DocumentedFormats => repFile.written


\* Standard CSV reading (fields separated by commas, records by line feeds,
\* a field may be enclosed in double quotes, a double quote inside an
\* enclosed field is written twice).  mode is "start" at the beginning of a
\* field, "plain" inside a bare field, "quoted" inside an enclosed field and
\* "closed" after its closing quote.
RECURSIVE ParseRecordFrom(_, _, _, _)
\* one record: its fields, and the text after its line feed
ParseRecordFrom(ts, mode, field, row) ==
    IF ts = <<>>
    THEN [ok |-> mode # "quoted", row |-> Append(row, field), rest |-> <<>>]
    ELSE LET h == Head(ts)
             t == Tail(ts)
         IN  IF mode = "quoted"
             THEN IF h = Quote
                  THEN IF t # <<>> /\ Head(t) = Quote
                       THEN ParseRecordFrom(Tail(t), "quoted", Append(field, Quote), row)
                       ELSE ParseRecordFrom(t, "closed", field, row)
                  ELSE ParseRecordFrom(t, "quoted", Append(field, h), row)
             ELSE IF h = Comma
                  THEN ParseRecordFrom(t, "start", <<>>, Append(row, field))
             ELSE IF h = LineFeed
                  THEN [ok |-> TRUE, row |-> Append(row, field), rest |-> t]
             ELSE IF h = Quote
                  THEN IF mode = "start"
                       THEN ParseRecordFrom(t, "quoted", <<>>, row)
                       ELSE [ok |-> FALSE, row |-> row, rest |-> t]
             ELSE IF mode = "closed"
                  THEN [ok |-> FALSE, row |-> row, rest |-> t]
                  ELSE ParseRecordFrom(t, "plain", Append(field, h), row)

RECURSIVE ParseRecords(_, _)
ParseRecords(ts, rows) ==
    IF ts = <<>>
    THEN [ok |-> TRUE, rows |-> rows]
    ELSE LET r == ParseRecordFrom(ts, "start", <<>>, <<>>)
         IN  IF r.ok
             THEN ParseRecords(r.rest, Append(rows, r.row))
             ELSE [ok |-> FALSE, rows |-> rows]

ParseCsv(text) == ParseRecords(text, <<>>)

\* the six logical fields of a result
LogicalFields(r) ==
    <<r.url, <<ToString(r.status)>>, r.statusText, <<ToString(r.responseTime)>>,
      <<ToString(r.size)>>, r.error>>

\* the header record and one record per result, in order
LogicalRows(rs) ==
    <<<< <<"URL">>, <<"Status">>, <<"Status Text">>, <<"Response Time (ms)">>,
         <<"Size (bytes)">>, <<"Error">> >>>>
        \o [i \in 1..Len(rs) |-> LogicalFields(rs[i])]

FileNames ==
    {[base |-> "a", ext |-> ".jpg", hidden |-> FALSE],
     [base |-> "b", ext |-> ".txt", hidden |-> FALSE],
     [base |-> "d", ext |-> ".xyz", hidden |-> FALSE],
     [base |-> ".h", ext |-> ".txt", hidden |-> TRUE]}

\* the directory itself: a folder is the sequence of the directory names
\* that lead to it from the directory organize is run on
Root == <<>>

\* the subdirectory the directory may hold, and the value of --folder
SubFolder == "sub"
CustomFolders == {Null, "sorted"}

\* A path: folder/base.ext, or folder/base (copy).ext when copy > 0
PathOf(folder, n, copy) == [folder |-> folder, base |-> n.base, ext |-> n.ext, copy |-> copy]

\* item.startsWith('.')
IsHidden(f) == f.base = ".h"

\* getCategory with DEFAULT_CATEGORIES
getCategory(ext) ==
    CASE ext = ".jpg" -> "Images"
      [] ext = ".txt" -> "Documents"
      [] OTHER -> "Other"

\* stat.mtime.toISOString().split('T')[0]: the day a file was last
\* modified, which a rename keeps
ModifiedDay(f) == IF f.base = "a" THEN "2024-01-01" ELSE "2024-02-02"

\* the names scanDirectory skips as category folders: the keys of
\* options.categories, and Other
CategoryFolders ==
    {"Images", "Documents", "Archives", "Audio", "Video", "Code", "Executables", "Fonts",
     "Data", "Other"}

\* the folders above and including folder: what mkdirSync with recursive
\* creates
RECURSIVE FoldersTo(_)
FoldersTo(folder) ==
    IF folder = Root THEN {}
    ELSE {folder} \cup FoldersTo(SubSeq(folder, 1, Len(folder) - 1))

\* the listings of a directory: up to MaxFiles names, none twice, in any order
Listings ==
    {l \in SeqsUpTo(FileNames, MaxFiles) : \A i, j \in 1..Len(l) : i # j => l[i] # l[j]}

\* a file left in a category folder by an earlier run
EarlierFiles == {PathOf(<<"Documents">>, [base |-> "b", ext |-> ".txt", hidden |-> FALSE], 0)}

\* what the subdirectory can hold: nothing (it does not exist), or one file
SubFiles == {{}} \cup {{PathOf(<<SubFolder>>, n, 0)} : n \in FileNames \ {[base |-> ".h", ext |-> ".txt", hidden |-> TRUE]}}

RECURSIVE SeqOfSet(_)
\* the elements of a set in the order readdirSync happens to give
SeqOfSet(S) ==
    IF S = {} THEN <<>>
    ELSE LET x == CHOOSE y \in S : TRUE
         IN  <<x>> \o SeqOfSet(S \ {x})

\* readdirSync(dir), the files: those of the directory itself in the order
\* of its listing, those of another folder in some order
FilesIn(dir, listing, files) ==
    IF dir = Root
    THEN LET Exists(n) == PathOf(Root, n, 0) \in files
             kept == SelectSeq(listing, Exists)
         IN  [i \in 1..Len(kept) |-> PathOf(Root, kept[i], 0)]
    ELSE SeqOfSet({f \in files : f.folder = dir})

\* readdirSync(dir), the directories
FoldersIn(dir, dirs) ==
    SeqOfSet({d \in dirs : Len(d) = Len(dir) + 1 /\ SubSeq(d, 1, Len(dir)) = dir})

RECURSIVE scanDirectory(_, _, _, _, _)
RECURSIVE ScanFolders(_, _, _, _, _)
\* scanDirectory: the files of dir that are not hidden (unless --hidden),
\* then, with --recursive, those of its folders that are not named like a
\* category
scanDirectory(dir, listing, files, dirs, opts) ==
    LET Kept(f) == opts.includeHidden \/ ~IsHidden(f)
    IN  SelectSeq(FilesIn(dir, listing, files), Kept)
            \o ScanFolders(FoldersIn(dir, dirs), listing, files, dirs, opts)

ScanFolders(folders, listing, files, dirs, opts) ==
    IF folders = <<>> THEN <<>>
    ELSE LET d == Head(folders)
             rest == ScanFolders(Tail(folders), listing, files, dirs, opts)
         IN  IF d[Len(d)] \in CategoryFolders \/ ~opts.recursive
             THEN rest
             ELSE scanDirectory(d, listing, files, dirs, opts) \o rest

\* file.category
CategoryOf(f, opts) == IF opts.dateSort THEN ModifiedDay(f) ELSE getCategory(f.ext)

RECURSIVE CategoryOrder(_, _)
\* the keys of byCategory: the categories in the order they are first seen
CategoryOrder(files, opts) ==
    IF files = <<>> THEN <<>>
    ELSE LET c == CategoryOf(Head(files), opts)
             Other(d) == d # c
         IN  <<c>> \o SelectSeq(CategoryOrder(Tail(files), opts), Other)

RECURSIVE ByCategory(_, _, _)
\* the files category by category, as the two nested loops of the plan
\* visit them
ByCategory(cats, files, opts) ==
    IF cats = <<>> THEN <<>>
    ELSE LET In(f) == CategoryOf(f, opts) = Head(cats)
         IN  SelectSeq(files, In) \o ByCategory(Tail(cats), files, opts)

\* targetPath: the category folder (under the custom folder when given),
\* then the file name with --flatten, the path relative to the directory
\* without
TargetPath(f, opts) ==
    LET targetFolder ==
            (IF opts.customFolder = Null THEN <<>> ELSE <<opts.customFolder>>)
                \o <<CategoryOf(f, opts)>>
    IN  [f EXCEPT !.folder = IF opts.flatten THEN targetFolder ELSE targetFolder \o f.folder]

\* the duplicate handling: the first of targetPath, targetPath (1),
\* targetPath (2), ... that does not exist; in a dry run, targetPath itself
FinalPath(files, targetPath, dryRun) ==
    IF dryRun \/ targetPath \notin files
    THEN targetPath
    ELSE LET Free(k) == [targetPath EXCEPT !.copy = k] \notin files
         IN  [targetPath EXCEPT !.copy =
                 CHOOSE k \in 1..(Cardinality(files) + 1) :
                     Free(k) /\ \A j \in 1..(k - 1) : ~Free(j)]

\* the plan: one operation per scanned file
PlanOperations(listing, files, dirs, opts) ==
    LET scanned == scanDirectory(Root, listing, files, dirs, opts)
        ordered == ByCategory(CategoryOrder(scanned, opts), scanned, opts)
    IN  [i \in 1..Len(ordered) |->
            [from |-> ordered[i],
             to |-> FinalPath(files, TargetPath(ordered[i], opts), opts.dryRun)]]

\* organize goes on after the plan: never
StopsAfterPlanNever(opts) == FALSE

\* organize returns after the plan in a dry run
StopsAfterPlan(opts) == opts.dryRun

\* fs.renameSync(from, to) throws when from does not exist or cannot be renamed
RenameThrows(files, from) == from \notin files \/ from \in locked

RECURSIVE ExecuteOperations(_, _)
\* the loop that executes the operations: mkdir of the target folder, then
\* rename, which replaces a file that is at the target; st is the file
\* system and the two counters
ExecuteOperations(ops, st) ==
    IF ops = <<>> THEN st
    ELSE LET op == Head(ops)
             made == st.dirs \cup FoldersTo(op.to.folder)
         IN  IF RenameThrows(st.files, op.from)
             THEN ExecuteOperations(Tail(ops),
                      [st EXCEPT !.dirs = made, !.failed = @ + 1])
             ELSE ExecuteOperations(Tail(ops),
                      [st EXCEPT !.dirs = made,
                                 !.files = (@ \ {op.from}) \cup {op.to},
                                 !.success = @ + 1])

\* operations.filter((_, i) => i < success)
LoggedOperations(ops, success) == SubSeq(ops, 1, success)

Reverse(s) == [i \in 1..Len(s) |-> s[Len(s) + 1 - i]]

RECURSIVE UndoOperations(_, _)
\* the loop of undo: an operation whose target exists is renamed back, after
\* the folder it came from is made again; st is the file system
UndoOperations(ops, st) ==
    IF ops = <<>> THEN st
    ELSE LET op == Head(ops)
         IN  IF op.to \in st.files /\ ~RenameThrows(st.files, op.to)
             THEN UndoOperations(Tail(ops),
                      [files |-> (st.files \ {op.to}) \cup {op.from},
                       dirs |-> st.dirs \cup FoldersTo(op.from.folder)])
             ELSE UndoOperations(Tail(ops), st)

RECURSIVE TargetFolders(_)
\* [...new Set(log.operations.map(op => path.dirname(op.to)))] without the
\* directory itself: the folders of the targets, each once, in order
TargetFolders(ops) ==
    IF ops = <<>> THEN <<>>
    ELSE LET d == Head(ops).to.folder
             Other(x) == x # d
         IN  (IF d = Root THEN <<>> ELSE <<d>>) \o SelectSeq(TargetFolders(Tail(ops)), Other)

RECURSIVE RemoveEmptyFolders(_, _, _)
\* undo removes, one after the other, the target folders that are empty
RemoveEmptyFolders(folders, dirs, files) ==
    IF folders = <<>> THEN dirs
    ELSE LET d == Head(folders)
             empty == /\ d \in dirs
                      /\ \A f \in files : f.folder # d
                      /\ FoldersIn(d, dirs) = <<>>
         IN  RemoveEmptyFolders(Tail(folders), IF empty THEN dirs \ {d} ELSE dirs, files)

\* the options of a run
OrganizeOptions ==
    [dryRun : BOOLEAN, includeHidden : BOOLEAN, recursive : BOOLEAN, flatten : BOOLEAN,
     dateSort : BOOLEAN, customFolder : CustomFolders]

\* no run before this one
NoPreviousRun == [planned |-> 0, success |-> 0]

InitOrganize ==
    /\ NoRun
    /\ NoCheck
    /\ NoReport
    /\ NoServer
    /\ NoPassgen
    /\ dirListing \in Listings
    /\ \E earlier \in SUBSET EarlierFiles, sub \in SubFiles :
           /\ fsFiles = {PathOf(Root, dirListing[i], 0) : i \in 1..Len(dirListing)}
                            \cup earlier \cup sub
           /\ fsDirs = {f.folder : f \in earlier \cup sub}
    /\ fsBefore = [files |-> fsFiles, dirs |-> fsDirs]
    /\ fsLog = NoLog
    /\ locked \in {{}} \cup {{PathOf(Root, dirListing[i], 0)} : i \in 1..Len(dirListing)}
    /\ orgOptions \in OrganizeOptions
    /\ orgPc = "start"
    /\ orgOps = <<>>
    /\ orgSuccess = 0
    /\ orgRuns = 0
    /\ orgPrev = NoPreviousRun

\* organize <directory> is run, for the first time or again after a run has
\* ended: organize up to the prompt scans, plans, and returns when there is
\* nothing to do or in a dry run
OrganizePlan ==
    /\ orgPc = "start" \/ (orgPc = "done" /\ orgRuns < MaxRuns)
    /\ orgRuns' = orgRuns + 1
    /\ orgPrev' = [planned |-> Len(orgOps), success |-> orgSuccess]
    /\ fsBefore' = [files |-> fsFiles, dirs |-> fsDirs]
    /\ orgSuccess' = 0
    /\ LET ops == PlanOperations(dirListing, fsFiles, fsDirs, orgOptions)
       IN  IF scanDirectory(Root, dirListing, fsFiles, fsDirs, orgOptions) = <<>>
           THEN orgPc' = "done" /\ orgOps' = <<>>
           ELSE /\ orgOps' = ops
                /\ orgPc' = IF StopsAfterPlan(orgOptions) THEN "done" ELSE "confirm"
    /\ UNCHANGED <<fsFiles, fsDirs, fsLog, dirListing, locked, orgOptions>>
    /\ UNCHANGED outsideOrganize

\* Enter is pressed: organize executes the operations and saves the log
OrganizeExecute ==
    /\ orgPc = "confirm"
    /\ LET st == ExecuteOperations(orgOps,
                     [files |-> fsFiles, dirs |-> fsDirs, success |-> 0, failed |-> 0])
       IN  /\ fsFiles' = st.files
           /\ fsDirs' = st.dirs
           /\ orgSuccess' = st.success
           /\ fsLog' = IF st.success > 0
                       THEN [exists |-> TRUE,
                             operations |-> LoggedOperations(orgOps, st.success)]
                       ELSE fsLog
    /\ orgPc' = "done"
    /\ UNCHANGED <<fsBefore, dirListing, locked, orgOptions, orgOps, orgRuns, orgPrev>>
    /\ UNCHANGED outsideOrganize

\* organize <directory> --undo, run after organize has ended
OrganizeUndo ==
    /\ orgPc = "done"
    /\ IF ~fsLog.exists
       THEN UNCHANGED <<fsFiles, fsDirs, fsLog>>
       ELSE LET ops == Reverse(fsLog.operations)
                st == UndoOperations(ops, [files |-> fsFiles, dirs |-> fsDirs])
            IN  /\ fsFiles' = st.files
                /\ fsDirs' = RemoveEmptyFolders(TargetFolders(ops), st.dirs, st.files)
                /\ fsLog' = NoLog
    /\ orgPc' = "undone"
    /\ UNCHANGED <<fsBefore, dirListing, locked, orgOptions, orgOps, orgSuccess, orgRuns,
                   orgPrev>>
    /\ UNCHANGED outsideOrganize

NextOrganize == OrganizePlan \/ OrganizeExecute \/ OrganizeUndo

OrganizeSpec == InitOrganize /\ [][NextOrganize]_vars

\* ---- claims about organize.js

\* C19: after an organize run in which at least one move succeeded, undo
\* leaves the set of file paths as it was before organize.
C19_UndoRestoresFiles ==
    (orgPc = "undone" /\ orgSuccess > 0) => fsFiles = fsBefore.files

\* C20: a dry run moves no file, creates no folder and writes no log.
C20_DryRunChangesNothing ==
    (orgPc # "start" /\ orgOptions.dryRun)
        => /\ fsFiles = fsBefore.files
           /\ fsDirs = fsBefore.dirs
           /\ ~fsLog.exists

\* a dry run has printed a plan over a directory that holds a duplicate
C20_Witness ==
    /\ orgPc = "done" /\ orgOptions.dryRun /\ Len(orgOps) >= 2
    /\ \E i \in 1..Len(orgOps) : orgOps[i].to \in fsFiles


\* ---- further claims about checkURL

\* entry e of redirects is a hop that was followed: a call to e.to made by
\* the end handler of a call to e.from that was answered with e.status
HopFollowed(e) ==
    \E d \in 1..Len(calls) :
        /\ calls[d].via = "redirect"
        /\ calls[d].url = e.to
        /\ calls[calls[d].parent].url = e.from
        /\ calls[calls[d].parent].event.kind = "response"
        /\ calls[calls[d].parent].event.status = e.status

\* C23: the url of the result is the initial URL; redirects holds hops that
\* were followed, in the order of the chain: the first starts at the initial
\* URL and every entry starts where the entry before it ends.
C23_RedirectChainInOrder ==
    RootResolved
        => LET rs == RootResult.redirects
           IN  /\ RootResult.url = target
               /\ rs # <<>> => rs[1].from = target
               /\ \A i \in 1..Len(rs) : HopFollowed(rs[i])
               /\ \A i \in 1..(Len(rs) - 1) : rs[i].to = rs[i + 1].from

\* a chain of two hops over three different URLs has been followed
C23_Witness ==
    /\ RootResolved
    /\ Len(RootResult.redirects) = 2
    /\ RootResult.redirects[1].to # RootResult.redirects[2].to
    /\ RootResult.redirects[2].to # target


\* the calls made for call c: its retries, and the request to its Location
Children(c) == {d \in 1..Len(calls) : calls[d].parent = c}

\* the elapsed time call c recorded for its own request
RecordedTime(c) ==
    IF calls[c].event.kind = "timeout" THEN checkOptions.timeout ELSE calls[c].event.t

RECURSIVE SumRecordedTime(_)
\* the sum of the recorded times of calls 1..n
SumRecordedTime(n) == IF n = 0 THEN 0 ELSE RecordedTime(n) + SumRecordedTime(n - 1)

\* the result of call c is the one its own handler built: a response that
\* was not followed, or a failure of the last attempt
OwnResult(c) ==
    \/ calls[c].event.kind = "response" /\ RedirectTargets(c) = {}
    \/ calls[c].event.kind \in {"error", "timeout"} /\ calls[c].attempt >= checkOptions.retries

\* C24: the responseTime of a result is the recorded time of the request
\* itself when the request ended the check, the time of the retry that
\* answered first when it was retried (never a sum over attempts), and the
\* recorded time of the hop plus the time of its target when a redirect was
\* followed: along a chain, the sum of one time per hop.
C24_TimeSumsHopsNotRetries ==
    /\ \A c \in 1..Len(calls) :
           calls[c].resolved
               => \/ OwnResult(c) /\ calls[c].result.responseTime = RecordedTime(c)
                  \/ \E d \in Children(c) :
                         /\ calls[d].resolved
                         /\ calls[d].via = "retry"
                         /\ calls[c].result.responseTime = calls[d].result.responseTime
                  \/ \E d \in Children(c) :
                         /\ calls[d].resolved
                         /\ calls[d].via = "redirect"
                         /\ calls[c].result.responseTime =
                                calls[c].event.t + calls[d].result.responseTime
    /\ (RootResolved /\ \A c \in 1..Len(calls) : calls[c].via # "retry")
           => RootResult.responseTime = SumRecordedTime(Len(calls))
    /\ (RootResolved /\ AllSocketErrors)
           => RootResult.responseTime = RecordedTime(Len(calls))

\* a chain of two hops with different times, the second hop answered by its
\* retry after a failed attempt
C24_Witness ==
    /\ RootResolved
    /\ Len(calls) = 3
    /\ calls[2].via = "redirect" /\ calls[2].event.kind = "error"
    /\ calls[3].via = "retry" /\ calls[3].event.kind = "response"
    /\ calls[1].event.t # calls[3].event.t
    /\ RootResult.responseTime = calls[1].event.t + calls[3].event.t

\* C25: every retry is attempt k + 1 of the same URL, made by a timer of
\* 1000 * k ms set after attempt k failed, with k below the retry limit.
C25_LinearBackoff ==
    \A d \in 1..Len(calls) :
        calls[d].via = "retry"
            => LET p == calls[calls[d].parent]
               IN  /\ p.event.kind \in {"error", "timeout"}
                   /\ p.attempt < checkOptions.retries
                   /\ calls[d].url = p.url
                   /\ calls[d].attempt = p.attempt + 1
                   /\ calls[d].after = 1000 * p.attempt

\* attempt 3 was made 2000 ms after attempt 2 failed
C25_Witness ==
    \E d \in 1..Len(calls) :
        /\ calls[d].via = "retry"
        /\ calls[d].attempt = 3
        /\ calls[d].after = 2000
        /\ calls[calls[d].parent].event.kind = "error"

\* C26: the responseTime of a response that ended the check is the time
\* from the call to the 'end' event of the response.
C26_TimeToEndOfBody ==
    (RootResolved /\ Len(calls) = 1 /\ calls[1].event.kind = "response")
        => RootResult.responseTime = calls[1].event.ended


\* the server always answers, and its redirects form a cycle: every request
\* so far to the initial URL was answered 301 to the other URL, and every
\* request to the other URL 301 back to the initial one
RedirectCycle ==
    /\ calls # <<>>
    /\ target = URLString("https", "a.com", "/")
    /\ \A c \in 1..Len(calls) :
           /\ calls[c].url \in {target, URLString("https", "b.com", "/")}
           /\ calls[c].event.kind \in {"response", "none"}
           /\ calls[c].event.kind = "response"
                  => /\ calls[c].event.status = 301
                     /\ calls[c].event.location =
                            IF calls[c].url = target
                            THEN URLString("https", "b.com", "/") ELSE target

\* C27: on a redirect cycle checkURL makes at most maxRedirects + 1
\* requests: the initial one and one per redirect it may follow.
C27_StopsOnRedirectCycle ==
    (checkOptions.followRedirects /\ RedirectCycle)
        => Len(calls) <= checkOptions.maxRedirects + 1


\* the five counts of the summary, added up
BucketSum ==
    repSummary.successful + repSummary.redirects + repSummary.clientErrors
        + repSummary.serverErrors + repSummary.failed

\* C28 as claimed: the five counts add up to the total for every result
\* list, 1xx statuses included.
C28_BucketsPartitionAll == repSummary.printed => BucketSum = repSummary.total

\* C28 as amended: the five counts add up to the total when every status is
\* 0 or at least 200, and each result with a status from 1 to 199 is counted
\* in the total and in no bucket.
C28_BucketsPartitionFrom200 ==
    repSummary.printed => BucketSum = repSummary.total - CountStatus(repResults, 1, 199)

\* a summary of results of all five classes and none below 200
C28_Witness ==
    /\ repSummary.printed
    /\ CountStatus(repResults, 1, 199) = 0
    /\ repSummary.successful > 0 /\ repSummary.clientErrors > 0
    /\ repSummary.serverErrors > 0 /\ repSummary.failed > 0
    /\ BucketSum = 4


\* the operations of the plan have pairwise different targets
DistinctTargets == \A i, j \in 1..Len(orgOps) : i # j => orgOps[i].to # orgOps[j].to

\* C29: in every plan the targets are pairwise different and none is an
\* existing file, and after the run the directory holds as many files as
\* before it.
C29_NoFileLost ==
    /\ orgPc = "confirm"
           => /\ DistinctTargets
              /\ \A i \in 1..Len(orgOps) : orgOps[i].to \notin fsFiles
    /\ (orgPc = "done" /\ ~orgOptions.dryRun)
           => Cardinality(fsFiles) = Cardinality(fsBefore.files)

\* the run before this one moved every file it had planned to move
PreviousRunSucceeded ==
    orgRuns >= 2 /\ ~orgOptions.dryRun /\ orgPrev.planned > 0
        /\ orgPrev.success = orgPrev.planned

\* C30: a run that follows a fully successful run plans no move.
C30_SecondRunPlansNothing == PreviousRunSucceeded => orgOps = <<>>

\* ------------------------------------------- simple server (src/unnamed/part_000)

\* A string is the sequence of its characters.

\* String.prototype.startsWith
StartsWith(s, prefix) == Len(s) >= Len(prefix) /\ SubSeq(s, 1, Len(prefix)) = prefix

\* decodeURIComponent: an escape becomes its character, a lone % throws URIError
DecodedChar(ch) == IF ch = "%2e" THEN "." ELSE IF ch = "%2f" THEN "/" ELSE ch
decodeURIComponent(url) == [i \in 1..Len(url) |-> DecodedChar(url[i])]
DecodeThrows(url) == \E i \in 1..Len(url) : url[i] = "%"

RECURSIVE SplitPath(_)
\* the segments of a path between its separators, the empty ones included
SplitPath(s) ==
    IF \A i \in 1..Len(s) : s[i] # "/" THEN <<s>>
    ELSE LET k == CHOOSE i \in 1..Len(s) : s[i] = "/" /\ \A j \in 1..(i - 1) : s[j] # "/"
         IN  <<SubSeq(s, 1, k - 1)>> \o SplitPath(SubSeq(s, k + 1, Len(s)))

RECURSIVE ResolveSegments(_, _)
\* path.normalize of an absolute path: "" and "." are dropped, ".." drops the segment
\* before it and is itself dropped at the root
ResolveSegments(segs, acc) ==
    IF segs = <<>> THEN acc
    ELSE LET h == Head(segs)
         IN  ResolveSegments(Tail(segs),
                 IF h = <<>> \/ h = <<".">> THEN acc
                 ELSE IF h = <<".", ".">>
                      THEN (IF acc = <<>> THEN acc ELSE SubSeq(acc, 1, Len(acc) - 1))
                      ELSE Append(acc, h))

\* the directories and the name a path leads to
SegmentsOf(s) == ResolveSegments(SplitPath(s), <<>>)

RECURSIVE JoinSegments(_)
JoinSegments(segs) ==
    IF segs = <<>> THEN <<>> ELSE <<"/">> \o Head(segs) \o JoinSegments(Tail(segs))

\* path.normalize: a trailing separator is kept
normalize(s) ==
    LET segs == SegmentsOf(s)
    IN  IF segs = <<>> THEN <<"/">>
        ELSE JoinSegments(segs) \o (IF s[Len(s)] = "/" THEN <<"/">> ELSE <<>>)

\* path.join of two non-empty strings
join(a, b) == normalize(a \o <<"/">> \o b)

\* the directory the server was started on: /p
directory == <<"/", "p">>

\* the directories of the machine: /, /p and its sibling /p2
ServerDirs == {<<>>, <<(<<"p">>)>>, <<(<<"p", "2">>)>>}

\* the files when the server starts: /p/a and, outside the served directory, /p2/s
ServerFiles == {<< <<"p">>, <<"a">> >>, << <<"p", "2">>, <<"s">> >>}

\* a path lies in a directory or is that directory
IsUnder(segs, dirSegs) ==
    Len(segs) >= Len(dirSegs) /\ SubSeq(segs, 1, Len(dirSegs)) = dirSegs

\* the request targets a client sends: /, /a, /a/, /e, /.., /../p2/s, /../p2/,
\* /%2e%2e/p2/s and the malformed /%
Urls ==
    { <<"/">>,
      <<"/", "a">>,
      <<"/", "a", "/">>,
      <<"/", "e">>,
      <<"/", ".", ".">>,
      <<"/", ".", ".", "/", "p", "2", "/", "s">>,
      <<"/", ".", ".", "/", "p", "2", "/">>,
      <<"/", "%2e", "%2e", "/", "p", "2", "/", "s">>,
      <<"/", "%">> }

\* the filename="..." of a part of a multipart body; <<>> for a part without one:
\* e, index.html, ../e, ../p2/s, x/e
Filenames ==
    { <<>>,
      <<"e">>,
      <<"index.html">>,
      <<".", ".", "/", "e">>,
      <<".", ".", "/", "p", "2", "/", "s">>,
      <<"x", "/", "e">> }

PartSeqs == UNION {[1..n -> [filename : Filenames]] : n \in 0..MaxParts}

Requests ==
    [method : {"GET", "OPTIONS"}, url : Urls, multipart : {FALSE}, parts : {<<>>}]
    \cup [method : {"POST"}, url : Urls, multipart : BOOLEAN, parts : PartSeqs]

\* fs.writeFileSync throws on a directory (EISDIR) and in a missing directory (ENOENT)
WriteThrows(t) ==
    t = <<>> \/ t \in ServerDirs \/ SubSeq(t, 1, Len(t) - 1) \notin ServerDirs

RECURSIVE WriteParts(_, _)
\* the loop over the parts of the body: every part with a filename is written to
\* path.join(directory, filename); an exception ends the loop
WriteParts(parts, st) ==
    IF parts = <<>> \/ st.threw THEN st
    ELSE LET filename == Head(parts).filename
             t == SegmentsOf(join(directory, filename))
         IN  IF filename = <<>> THEN WriteParts(Tail(parts), st)
             ELSE IF WriteThrows(t) THEN [st EXCEPT !.threw = TRUE]
             ELSE WriteParts(Tail(parts),
                      [files |-> st.files \cup {t}, written |-> st.written \cup {t},
                       threw |-> FALSE])

\* nothing was asked yet
NoExchange == [method |-> "", urlPath |-> <<>>, status |-> 0, body |-> "", cors |-> FALSE]

Exchange(req, urlPath, status, body) ==
    [method |-> req.method, urlPath |-> urlPath, status |-> status, body |-> body,
     cors |-> srvCors]

InitServer ==
    /\ NoRun
    /\ NoCheck
    /\ NoReport
    /\ NoOrganize
    /\ NoPassgen
    /\ srvPc = "listening"
    /\ srvUpload \in BOOLEAN
    /\ srvCors \in BOOLEAN
    /\ srvFiles = ServerFiles
    /\ srvRead = {}
    /\ srvListed = {}
    /\ srvWritten = {}
    /\ srvLast = NoExchange
    /\ srvCount = 0

\* the request handler, from the request to the end of the response
RequestHandler(req) ==
    /\ srvPc = "listening"
    /\ srvCount < MaxRequests
    /\ srvCount' = srvCount + 1
    /\ LET urlPath == decodeURIComponent(req.url)
           filePath == join(directory, urlPath)
           segs == SegmentsOf(filePath)
           asDirectory == filePath[Len(filePath)] = "/" /\ Len(filePath) > 1
           indexPath == Append(segs, <<"index.html">>)
           up == WriteParts(req.parts,
                            [files |-> srvFiles, written |-> srvWritten, threw |-> FALSE])
       IN  IF req.method = "OPTIONS"
           THEN /\ srvLast' = Exchange(req, <<>>, 200, "")
                /\ UNCHANGED <<srvPc, srvFiles, srvRead, srvListed, srvWritten>>
           ELSE IF DecodeThrows(req.url)
           THEN /\ srvPc' = "crashed"
                /\ srvLast' = Exchange(req, <<>>, 0, "")
                /\ UNCHANGED <<srvFiles, srvRead, srvListed, srvWritten>>
           ELSE IF ~StartsWith(filePath, directory)
           THEN /\ srvLast' = Exchange(req, urlPath, 403, "Forbidden")
                /\ UNCHANGED <<srvPc, srvFiles, srvRead, srvListed, srvWritten>>
           ELSE IF req.method = "POST" /\ srvUpload
           THEN IF req.multipart
                THEN /\ srvFiles' = up.files
                     /\ srvWritten' = up.written
                     /\ srvPc' = IF up.threw THEN "crashed" ELSE srvPc
                     /\ srvLast' = IF up.threw THEN Exchange(req, urlPath, 0, "")
                                   ELSE Exchange(req, urlPath, 200, "OK")
                     /\ UNCHANGED <<srvRead, srvListed>>
                ELSE /\ srvLast' = Exchange(req, urlPath, 200, "OK")
                     /\ UNCHANGED <<srvPc, srvFiles, srvRead, srvListed, srvWritten>>
           ELSE IF segs \in ServerDirs
           THEN IF indexPath \in srvFiles
                THEN /\ srvRead' = srvRead \cup {indexPath}
                     /\ srvLast' = Exchange(req, urlPath, 200, "index")
                     /\ UNCHANGED <<srvPc, srvFiles, srvListed, srvWritten>>
                ELSE /\ srvListed' = srvListed \cup {segs}
                     /\ srvLast' = Exchange(req, urlPath, 200, "listing")
                     /\ UNCHANGED <<srvPc, srvFiles, srvRead, srvWritten>>
           ELSE IF segs \in srvFiles /\ ~asDirectory
           THEN /\ srvRead' = srvRead \cup {segs}
                /\ srvLast' = Exchange(req, urlPath, 200, "file")
                /\ UNCHANGED <<srvPc, srvFiles, srvListed, srvWritten>>
           ELSE /\ srvLast' = Exchange(req, urlPath, 404, "Not found")
                /\ UNCHANGED <<srvPc, srvFiles, srvRead, srvListed, srvWritten>>
    /\ UNCHANGED <<srvUpload, srvCors>>
    /\ UNCHANGED outsideServer

NextServer == \E req \in Requests : RequestHandler(req)

ServerSpec == InitServer /\ [][NextServer]_vars

\* ------------------------------------------------ password generator (src/passgen.js)

\* the character sets; a character of the extended set is named by its code point
CHAR_SETS ==
    [lowercase |-> <<"a", "b", "c", "d", "e", "f", "g", "h", "i", "j", "k", "l", "m", "n", "o", "p",
                        "q", "r", "s", "t", "u", "v", "w", "x", "y", "z">>,
     uppercase |-> <<"A", "B", "C", "D", "E", "F", "G", "H", "I", "J", "K", "L", "M", "N", "O", "P",
                        "Q", "R", "S", "T", "U", "V", "W", "X", "Y", "Z">>,
     numbers   |-> <<"0", "1", "2", "3", "4", "5", "6", "7", "8", "9">>,
     symbols   |-> <<"!", "@", "#", "$", "%", "^", "&", "*", "(", ")", "_", "+", "-", "=", "[", "]",
                        "{", "}", "|", ";", ":", ",", ".", "<", ">", "?">>,
     ambiguous |-> <<"0", "O", "1", "l", "I">>,
     extended  |-> <<"U+00A1", "U+00A2", "U+00A3", "U+00A4", "U+00A5", "U+00A6", "U+00A7", "U+00A8",
                        "U+00A9", "U+00AA", "U+00AB", "U+00AC", "U+00AD", "U+00AE", "U+00AF", "U+00B0",
                        "U+00B1", "U+00B2", "U+00B3", "U+00B4", "U+00B5", "U+00B6", "U+00B7", "U+00B8",
                        "U+00B9", "U+00BA", "U+00BB", "U+00BC", "U+00BD", "U+00BE", "U+00BF">>]

\* the sets generatePassword takes one character of each from, in its order
RequiredSets == <<"lowercase", "uppercase", "numbers", "symbols">>

\* the characters of a string
CharsOf(s) == {s[i] : i \in 1..Len(s)}

\* String.prototype.replace with a global pattern: every occurrence goes
RemoveAll(s, ch) == SelectSeq(s, LAMBDA c : c # ch)

\* String.prototype.replace with a string pattern: the first occurrence goes
RemoveFirst(s, ch) ==
    IF ch \notin CharsOf(s) THEN s
    ELSE LET k == CHOOSE i \in 1..Len(s) : s[i] = ch /\ \A j \in 1..(i - 1) : s[j] # ch
         IN  SubSeq(s, 1, k - 1) \o SubSeq(s, k + 1, Len(s))

RECURSIVE RemoveEach(_, _, _)
\* for (const char of chars) s = s.replace(char, '')
RemoveEach(s, chars, global) ==
    IF chars = <<>> THEN s
    ELSE RemoveEach(IF global THEN RemoveAll(s, Head(chars)) ELSE RemoveFirst(s, Head(chars)),
                    Tail(chars), global)

IfSet(opts, name) == IF opts[name] THEN CHAR_SETS[name] ELSE <<>>

buildCharPool(opts) ==
    LET pool == IfSet(opts, "lowercase") \o IfSet(opts, "uppercase") \o IfSet(opts, "numbers")
                    \o IfSet(opts, "symbols") \o IfSet(opts, "extended")
        clear == IF opts.noAmbiguous THEN RemoveEach(pool, CHAR_SETS.ambiguous, TRUE) ELSE pool
    IN  RemoveEach(clear, opts.exclude, TRUE)

\* getRandomChar up to the random choice: the set without the characters to avoid
Filtered(set, opts) ==
    LET clear == IF opts.noAmbiguous THEN RemoveEach(set, CHAR_SETS.ambiguous, FALSE) ELSE set
    IN  RemoveEach(clear, opts.exclude, FALSE)

\* secureRandom(max) for the random number r; crypto.randomInt(0, 0) throws RangeError
secureRandom(max, r) == r % max

\* the sets the options select
EnabledSets(opts) == SelectSeq(RequiredSets, LAMBDA name : opts[name])

\* the random numbers one call of generatePassword draws
Draws(opts) ==
    LET n == Len(EnabledSets(opts))
        len == IF opts.length > n THEN opts.length ELSE n
    IN  len + (len - 1)

Swap(arr, i, j) == [arr EXCEPT ![i] = arr[j], ![j] = arr[i]]

RECURSIVE Shuffle(_, _, _, _)
\* for (let i = required.length - 1; i > 0; i--), the array indexed from 1
Shuffle(arr, i, rnd, drawn) ==
    IF i < 1 THEN arr
    ELSE Shuffle(Swap(arr, i + 1, secureRandom(i + 1, rnd[drawn + 1]) + 1), i - 1, rnd,
                 drawn + 1)

NoChar == ""

generatePassword(opts, rnd) ==
    LET pool == buildCharPool(opts)
        sets == EnabledSets(opts)
        n == Len(sets)
        emptied == \E k \in 1..n : Filtered(CHAR_SETS[sets[k]], opts) = <<>>
        len == IF opts.length > n THEN opts.length ELSE n
        required ==
            [k \in 1..len |->
                IF k <= n
                THEN LET filtered == Filtered(CHAR_SETS[sets[k]], opts)
                     IN  IF filtered = <<>> THEN NoChar
                         ELSE filtered[secureRandom(Len(filtered), rnd[k]) + 1]
                ELSE pool[secureRandom(Len(pool), rnd[k]) + 1]]
    IN  IF pool = <<>>
        THEN [thrown |-> "No character sets selected. Use at least one character type.",
              password |-> <<>>]
        ELSE IF emptied
        THEN [thrown |-> "RangeError", password |-> <<>>]
        ELSE [thrown |-> "", password |-> Shuffle(required, len - 1, rnd, len)]

\* the values of --exclude: none, aA, and every digit
Excludes == {<<>>, <<"a", "A">>, CHAR_SETS.numbers}

PassgenOptions ==
    [length : 1..MaxLength, lowercase : BOOLEAN, uppercase : BOOLEAN, numbers : BOOLEAN,
     symbols : BOOLEAN, extended : BOOLEAN, noAmbiguous : BOOLEAN, exclude : Excludes]

InitPassgen ==
    /\ NoRun
    /\ NoCheck
    /\ NoReport
    /\ NoOrganize
    /\ NoServer
    /\ pgOptions \in PassgenOptions
    /\ pgPc = "start"
    /\ pgPassword = <<>>
    /\ pgThrown = ""

\* one call of generatePassword, the random numbers drawn from 0..MaxRandom
Generate ==
    /\ pgPc = "start"
    /\ \E rnd \in [1..Draws(pgOptions) -> 0..MaxRandom] :
           LET r == generatePassword(pgOptions, rnd)
           IN  /\ pgPc' = IF r.thrown = "" THEN "returned" ELSE "thrown"
               /\ pgPassword' = r.password
               /\ pgThrown' = r.thrown
    /\ UNCHANGED pgOptions
    /\ UNCHANGED outsidePassgen

NextPassgen == Generate

PassgenSpec == InitPassgen /\ [][NextPassgen]_vars

\* ------------------------------------------------ claims about the simple server

\* the served directory as directories
ServedSegments == SegmentsOf(directory)

\* the last request, other than a preflight, named a path outside the served directory
ResolvedOutside ==
    /\ srvLast.status # 0
    /\ srvLast.method # "OPTIONS"
    /\ ~IsUnder(SegmentsOf(join(directory, srvLast.urlPath)), ServedSegments)

\* C21: the server reads and writes no file outside the served directory, and a
\* request whose decoded path resolves outside it is answered 403.
C21_NeverOutsideServedDirectory ==
    /\ \A f \in srvRead \cup srvWritten : IsUnder(f, ServedSegments)
    /\ ResolvedOutside => srvLast.status = 403

\* ------------------------------------------------ claims about the password generator

\* the characters the options rule out
Avoided(opts) ==
    CharsOf(opts.exclude) \cup (IF opts.noAmbiguous THEN CharsOf(CHAR_SETS.ambiguous) ELSE {})

\* C22: with a non-empty pool, generatePassword returns a password of exactly
\* options.length characters, with a character of every enabled set and none of the
\* excluded or ambiguous ones.
C22_PasswordMeetsOptions ==
    (pgPc # "start" /\ buildCharPool(pgOptions) # <<>>)
        => /\ pgPc = "returned"
           /\ Len(pgPassword) = pgOptions.length
           /\ \A k \in 1..Len(EnabledSets(pgOptions)) :
                  CharsOf(pgPassword) \cap CharsOf(CHAR_SETS[EnabledSets(pgOptions)[k]]) # {}
           /\ CharsOf(pgPassword) \cap Avoided(pgOptions) = {}

====
